---- MODULE Spec2Model ----
(***************************************************************************)
(* Fee estimation and change reconciliation of tokenized/txbuilder.        *)
(*                                                                         *)
(* The state is one TxBuilder: the supplements tx.Inputs / tx.Outputs, the *)
(* wire transaction's tx.MsgTx.TxIn / tx.MsgTx.TxOut, the configured       *)
(* change script and the fee rate; arg and res hold the argument and the   *)
(* result of one call of a function of the packages that takes no          *)
(* TxBuilder.  A script is represented by what the                         *)
(* code asks of it: its template (the external classification predicates), *)
(* the number of agent wrappers around it, and its byte length.            *)
(*                                                                         *)
(* Go's uint64 / int64 are modelled as UintBits-wide words with the same   *)
(* wrap-around and reinterpretation rules (TLC's own integers are 32 bit). *)
(* A float fee rate is modelled as the rational num/den.                   *)
(***************************************************************************)
EXTENDS Integers, Sequences, FiniteSets, TLC

VARIABLES Inputs, TxIn, TxOut, Outputs, ChangeScript, FeeRate, call, calls, arg, res

vars == <<Inputs, TxIn, TxOut, Outputs, ChangeScript, FeeRate, call, calls, arg, res>>

(***************************************************************************)
(* Bounds of the model.                                                    *)
(***************************************************************************)
UintBits == 16
MaxOutputs == 2
MaxCalls == 2
MaxDepth == 2
MaxSigners == 3
MaxInputs == 2
MaxItems == 3
MaxSize == 60
MaxLoopCalls == 5

(***************************************************************************)
(* Machine words.                                                          *)
(***************************************************************************)
Modulus == 2 ^ UintBits
MaxUint64 == Modulus - 1
MinInt64 == 0 - (Modulus \div 2)
MaxInt64 == (Modulus \div 2) - 1

\* uint64(x): the value of x as an unsigned word.
ToUint64(x) == x % Modulus

\* int64(x): the value of x as a two's complement signed word.
ToInt64(x) == IF (x % Modulus) > MaxInt64 THEN (x % Modulus) - Modulus ELSE x % Modulus

(***************************************************************************)
(* Size constants of package txbuilder.                                    *)
(***************************************************************************)
BaseTxSize == 8
PublicKeyHashPushDataSize == 21
PublicKeyPushDataSize == 34
MaxSignatureSize == 73
MaxSignaturesPushDataSize == 1 + MaxSignatureSize
InputBaseSize == 32 + 4 + 4
MaximumP2PKHSigScriptSize == MaxSignaturesPushDataSize + PublicKeyPushDataSize
MaximumP2PKHInputSize == InputBaseSize + 1 + MaximumP2PKHSigScriptSize
OutputBaseSize == 8
P2PKHOutputScriptSize == PublicKeyHashPushDataSize + 4
P2PKHOutputSize == OutputBaseSize + 1 + P2PKHOutputScriptSize
P2PKOutputScriptSize == PublicKeyPushDataSize + 1

\* The sentinel "no change output found" (0xffffffff in the source; sequences
\* here are indexed from 1, so 0 is the index no output has).
NoChangeOutput == 0

(***************************************************************************)
(* Scripts.  kind is the innermost template, agent the number of agent     *)
(* wrappers around it, hard whether the script still ends in its           *)
(* hard-verify clause, len its length in bytes.                            *)
(***************************************************************************)
Script(kind, agent, hard, required, total, len) ==
    [kind |-> kind, agent |-> agent, hard |-> hard,
     required |-> required, total |-> total, len |-> len]

EmptyScript == Script("empty", 0, FALSE, 0, 0, 0)
P2PKHScript == Script("P2PKH", 0, FALSE, 0, 0, P2PKHOutputScriptSize)
P2PKScript == Script("P2PK", 0, FALSE, 0, 0, P2PKOutputScriptSize)
IsP2PK(s) == s.agent = 0 /\ ~s.hard /\ s.kind = "P2PK"
IsP2PKH(s) == s.agent = 0 /\ ~s.hard /\ s.kind = "P2PKH"
IsMultiPKH(s) == s.agent = 0 /\ ~s.hard /\ s.kind = "MultiPKH"

MultiPKHCountsSwapped(s) ==
    [required |-> s.total, total |-> s.required, err |-> ~IsMultiPKH(s)]

\* lockingScript.MultiPKHCounts(): required and total of an M-of-N script.
MultiPKHCounts(s) ==
    [required |-> s.required, total |-> s.total, err |-> ~IsMultiPKH(s)]

\* agent_bitcoin_transfer.MatchScript: the script matches when it is agent
\* wrapped; info.AgentLockingScript is the script one wrapper further in,
\* which inside the wrapper ends in its hard-verify clause.
MatchScript(s) ==
    [matched |-> s.agent > 0,
     AgentLockingScript |-> [s EXCEPT !.agent = s.agent - 1, !.hard = TRUE]]

RemoveHardVerifyKept(s) == s

\* Script.RemoveHardVerify()
RemoveHardVerify(s) == [s EXCEPT !.hard = FALSE]

\* agent_bitcoin_transfer.ApproveUnlockingSize: the agent's unlocking script
\* plus the approval layer's fixed overhead.
ApproveOverhead == 1
ApproveUnlockingSize(agentUnlockingSize) == agentUnlockingSize + ApproveOverhead

(***************************************************************************)
(* VarSize and the size of scripts, inputs and outputs.                    *)
(***************************************************************************)
\* A uint64 as its four 16 bit digits, least significant first.
Digits(val) == <<val % 65536, val \div 65536, 0, 0>>

VarIntSerializeSizeDigits(d) ==
    IF d[4] = 0 /\ d[3] = 0 /\ d[2] = 0 /\ d[1] < 253 THEN 1
    ELSE IF d[4] = 0 /\ d[3] = 0 /\ d[2] = 0 THEN 3
    ELSE IF d[4] = 0 /\ d[3] = 0 THEN 5
    ELSE 9

VarIntSerializeSize(val) == VarIntSerializeSizeDigits(Digits(val))

RECURSIVE UnlockingScriptSize(_)
UnlockingScriptSize(lockingScript) ==
    IF IsP2PK(lockingScript)
    THEN [size |-> MaxSignaturesPushDataSize, err |-> FALSE]
    ELSE IF IsP2PKH(lockingScript)
    THEN [size |-> MaxSignaturesPushDataSize + PublicKeyPushDataSize, err |-> FALSE]
    ELSE IF ~MultiPKHCounts(lockingScript).err
    THEN LET c == MultiPKHCounts(lockingScript)
         IN  [size |-> (c.total - c.required)
                       + c.required * (MaxSignaturesPushDataSize + PublicKeyPushDataSize + 1),
              err |-> FALSE]
    ELSE IF MatchScript(lockingScript).matched
    THEN LET agent == UnlockingScriptSize(
                          RemoveHardVerify(MatchScript(lockingScript).AgentLockingScript))
         IN  IF agent.err
             THEN [size |-> 0, err |-> TRUE]
             ELSE [size |-> ApproveUnlockingSize(agent.size), err |-> FALSE]
    ELSE [size |-> 0, err |-> TRUE]

InputSize(lockingScript) ==
    LET s == UnlockingScriptSize(lockingScript)
    IN  IF s.err
        THEN [size |-> 0, err |-> TRUE]
        ELSE [size |-> InputBaseSize + VarIntSerializeSize(s.size) + s.size, err |-> FALSE]

OutputSize(lockingScript) ==
    OutputBaseSize + VarIntSerializeSize(lockingScript.len) + lockingScript.len

\* wire.TxOut.SerializeSize(): value, script length prefix, script.
SerializeSize(output) == OutputSize(output.LockingScript)

(***************************************************************************)
(* Fee arithmetic.  rate is the rational rate.num / rate.den.              *)
(***************************************************************************)
EstimatedFeeValueNearest(size, rate) == (2 * size * rate.num + rate.den) \div (2 * rate.den)

\* uint64(math.Ceil(float64(size) * feeRate))
EstimatedFeeValue(size, rate) == (size * rate.num + rate.den - 1) \div rate.den

EstimatedFeeValueDown(size, rate) == (size * rate.num) \div rate.den

\* The fee of the bytes an output adds and of the input that later spends it.
OutputTotalCost(lockingScript, rate) ==
    LET in == InputSize(lockingScript)
    IN  IF in.err
        THEN [outputFee |-> 0, inputFee |-> 0, err |-> TRUE]
        ELSE [outputFee |-> EstimatedFeeValue(OutputSize(lockingScript), rate),
              inputFee |-> EstimatedFeeValue(in.size, rate),
              err |-> FALSE]

(***************************************************************************)
(* The declaration codec.  An unlocking script is represented by whether   *)
(* it is a false-op-return script and by the envelope it carries: the      *)
(* protocol IDs and the payload's script items.                            *)
(***************************************************************************)
UnlockingScript(isFalseOpReturn, ids, payload) ==
    [IsFalseOpReturn |-> isFalseOpReturn, ProtocolIDs |-> ids, Payload |-> payload]

EmptyUnlockingScript == UnlockingScript(FALSE, <<>>, <<>>)

\* A script item: a number opcode (OP_0, OP_1 .. OP_16), pushed bytes, or
\* an opcode that is no number.
OpNumber(n) == [op |-> "OP_N", n |-> n, data |-> <<>>]
PushData(bytes) == [op |-> "PUSH", n |-> 0, data |-> bytes]
OpDup == [op |-> "OP_DUP", n |-> 0, data |-> <<>>]

\* The bytes of a number, least significant first, and back.
RECURSIVE LittleEndian(_)
LittleEndian(v) == IF v = 0 THEN <<>> ELSE <<v % 256>> \o LittleEndian(v \div 256)

RECURSIVE FromLittleEndian(_)
FromLittleEndian(b) == IF b = <<>> THEN 0 ELSE b[1] + 256 * FromLittleEndian(Tail(b))

\* bitcoin.PushNumberScriptItemUnsigned: a script number, a zero byte
\* appended where the top bit would read as a sign.
PushNumberScriptItemUnsigned(v) ==
    IF v <= 16 THEN OpNumber(v)
    ELSE LET b == LittleEndian(v)
         IN  PushData(IF b[Len(b)] >= 128 THEN Append(b, 0) ELSE b)

\* bitcoin.PushNumberScriptItem: the same, the sign in the top bit.
PushNumberScriptItem(v) ==
    IF v >= 0 THEN PushNumberScriptItemUnsigned(v)
    ELSE LET b == LittleEndian(0 - v)
         IN  PushData(IF b[Len(b)] >= 128 THEN Append(b, 128)
                      ELSE [b EXCEPT ![Len(b)] = @ + 128])

\* The last byte of pushed data holds the sign in its top bit.
LastByte(data) == data[Len(data)]

SignedValue(data) ==
    IF LastByte(data) >= 128
    THEN 0 - FromLittleEndian([data EXCEPT ![Len(data)] = LastByte(data) % 128])
    ELSE FromLittleEndian(data)

\* bitcoin.ScriptNumberValue
ScriptNumberValue(item) ==
    IF item.op = "OP_N" THEN [value |-> item.n, err |-> FALSE]
    ELSE IF item.op # "PUSH" THEN [value |-> 0, err |-> TRUE]
    ELSE IF item.data = <<>> THEN [value |-> 0, err |-> FALSE]
    ELSE IF SignedValue(item.data) < MinInt64 \/ SignedValue(item.data) > MaxInt64
    THEN [value |-> 0, err |-> TRUE]
    ELSE [value |-> SignedValue(item.data), err |-> FALSE]

\* bitcoin.ScriptNumberValueUnsigned
ScriptNumberValueUnsigned(item) ==
    IF item.op = "OP_N" THEN [value |-> item.n, err |-> FALSE]
    ELSE IF item.op # "PUSH" THEN [value |-> 0, err |-> TRUE]
    ELSE IF item.data = <<>> THEN [value |-> 0, err |-> FALSE]
    ELSE IF LastByte(item.data) >= 128 \/ FromLittleEndian(item.data) > MaxUint64
    THEN [value |-> 0, err |-> TRUE]
    ELSE [value |-> FromLittleEndian(item.data), err |-> FALSE]

\* Version of both declaration protocols.
Version == 0

NoMessage == [type |-> "nil"]

HasProtocolIDAnywhere(payload, id) ==
    \E i \in 1..Len(payload.ProtocolIDs) : payload.ProtocolIDs[i] = id

\* The envelope has protocol IDs and the first of them is id.
HasProtocolID(payload, id) ==
    IF Len(payload.ProtocolIDs) = 0 THEN FALSE
    ELSE payload.ProtocolIDs[1] = id

\* A parse that ends in the error err.
ParseError(payload, err) == [msg |-> NoMessage, payload |-> payload, err |-> err]

UnlockingDataWriteValueFirst(m) ==
    [ProtocolIDs |-> <<"UL">>,
     Payload |-> <<PushNumberScriptItem(Version),
                   PushNumberScriptItemUnsigned(m.Value),
                   PushNumberScriptItemUnsigned(m.Size)>>]

\* UnlockingData.Write()
UnlockingDataWrite(m) ==
    [ProtocolIDs |-> <<"UL">>,
     Payload |-> <<PushNumberScriptItem(Version),
                   PushNumberScriptItemUnsigned(m.Size),
                   PushNumberScriptItemUnsigned(m.Value)>>]

\* payload.ProtocolIDs = payload.ProtocolIDs[1:]
StripProtocolID(payload) == [payload EXCEPT !.ProtocolIDs = Tail(@)]

\* payload.Payload = payload.Payload[n:]
StripFields(payload, n) == [payload EXCEPT !.Payload = SubSeq(@, n + 1, Len(@))]

\* unlocking_data.Parse
UnlockingDataParse(payload) ==
    IF ~HasProtocolID(payload, "UL")
    THEN [msg |-> NoMessage, payload |-> payload, err |-> "nil"]
    ELSE IF Len(payload.Payload) < 3
    THEN ParseError(StripProtocolID(payload), "ErrInvalidMessage")
    ELSE IF ScriptNumberValue(payload.Payload[1]).err
    THEN ParseError(StripProtocolID(payload), "version")
    ELSE IF ScriptNumberValue(payload.Payload[1]).value # 0
    THEN ParseError(StripProtocolID(payload), "ErrUnsupportedVersion")
    ELSE IF ScriptNumberValueUnsigned(payload.Payload[2]).err
    THEN ParseError(StripProtocolID(payload), "size script number")
    ELSE IF ScriptNumberValueUnsigned(payload.Payload[3]).err
    THEN ParseError(StripProtocolID(payload), "value script number")
    ELSE [msg |-> [type |-> "UnlockingData",
                   Size |-> ScriptNumberValueUnsigned(payload.Payload[2]).value,
                   Value |-> ScriptNumberValueUnsigned(payload.Payload[3]).value],
          payload |-> StripFields(StripProtocolID(payload), 3),
          err |-> "nil"]

\* UnlockingSize.Write()
UnlockingSizeWrite(m) ==
    [ProtocolIDs |-> <<"UL_S">>,
     Payload |-> <<PushNumberScriptItem(Version),
                   PushNumberScriptItemUnsigned(m.UnlockingSize)>>]

\* unlocking_size.Parse
UnlockingSizeParse(payload) ==
    IF ~HasProtocolID(payload, "UL_S")
    THEN [msg |-> NoMessage, payload |-> payload, err |-> "nil"]
    ELSE IF Len(payload.Payload) < 2
    THEN ParseError(StripProtocolID(payload), "ErrInvalidMessage")
    ELSE IF ScriptNumberValue(payload.Payload[1]).err
    THEN ParseError(StripProtocolID(payload), "version")
    ELSE IF ScriptNumberValue(payload.Payload[1]).value # 0
    THEN ParseError(StripProtocolID(payload), "ErrUnsupportedVersion")
    ELSE IF ScriptNumberValueUnsigned(payload.Payload[2]).err
    THEN ParseError(StripProtocolID(payload), "script number")
    ELSE [msg |-> [type |-> "UnlockingSize",
                   UnlockingSize |-> ScriptNumberValueUnsigned(payload.Payload[2]).value],
          payload |-> StripFields(StripProtocolID(payload), 2),
          err |-> "nil"]

\* The placeholder unlocking script that carries an envelope.
PlaceholderScript(data) == UnlockingScript(TRUE, data.ProtocolIDs, data.Payload)

\* A placeholder unlocking script with an UnlockingData declaration, with an
\* UnlockingSize declaration, with an UnlockingData of a version unknown.
Declaring(size, value) == PlaceholderScript(UnlockingDataWrite([Size |-> size, Value |-> value]))

DeclaringSize(size) == PlaceholderScript(UnlockingSizeWrite([UnlockingSize |-> size]))

DeclaringVersion1 ==
    UnlockingScript(TRUE, <<"UL">>,
                    <<OpNumber(1), PushNumberScriptItemUnsigned(108),
                      PushNumberScriptItemUnsigned(600)>>)

\* A script that carries the declaration without being a false-op-return.
NotFalseOpReturn == [Declaring(108, 600) EXCEPT !.IsFalseOpReturn = FALSE]

\* protocols.Parse(script) with unlocking_data.NewProtocol() registered.
ProtocolsParse(unlockingScript) ==
    UnlockingDataParse([ProtocolIDs |-> unlockingScript.ProtocolIDs,
                        Payload |-> unlockingScript.Payload])

\* IsFalseOpReturn(), protocols.Parse and the type assertion
\* msg.(*unlocking_data.UnlockingData): the declaration an input's
\* placeholder unlocking script carries, if any.
UnlockingDataOf(txin) ==
    IF /\ txin.UnlockingScript.IsFalseOpReturn
       /\ ProtocolsParse(txin.UnlockingScript).err = "nil"
       /\ ProtocolsParse(txin.UnlockingScript).msg.type = "UnlockingData"
    THEN [ok |-> TRUE,
          Size |-> ProtocolsParse(txin.UnlockingScript).msg.Size,
          Value |-> ProtocolsParse(txin.UnlockingScript).msg.Value]
    ELSE [ok |-> FALSE, Size |-> 0, Value |-> 0]

(***************************************************************************)
(* Sums of values and the estimated size of the transaction.               *)
(***************************************************************************)
RECURSIVE InputValueFrom(_, _, _)
InputValueFrom(ins, txins, i) ==
    IF i > Len(ins) THEN 0
    ELSE LET d == UnlockingDataOf(txins[i])
             v == IF ins[i].Value = 0 /\ d.ok THEN d.Value ELSE ins[i].Value
         IN  ToUint64(v + InputValueFrom(ins, txins, i + 1))

\* TxBuilder.InputValue()
InputValueOf(ins, txins) == InputValueFrom(ins, txins, 1)

\* The loop of OutputValue over the outputs lo..hi, summed by halves: a
\* wrapping sum does not depend on how it is grouped.
RECURSIVE OutputValueBetween(_, _, _, _, _)
OutputValueBetween(txouts, outs, includeChange, lo, hi) ==
    IF lo > hi THEN 0
    ELSE IF lo = hi
    THEN IF includeChange \/ ~outs[lo].IsRemainder THEN txouts[lo].Value ELSE 0
    ELSE ToUint64(OutputValueBetween(txouts, outs, includeChange, lo, (lo + hi) \div 2)
                  + OutputValueBetween(txouts, outs, includeChange,
                                       ((lo + hi) \div 2) + 1, hi))

OutputValueFrom(txouts, outs, includeChange, i) ==
    OutputValueBetween(txouts, outs, includeChange, i, Len(txouts))

\* TxBuilder.OutputValue(includeChange)
OutputValueOf(txouts, outs, includeChange) == OutputValueFrom(txouts, outs, includeChange, 1)

\* TxBuilder.Fee()
FeeOf(ins, txins, txouts, outs) ==
    LET o == OutputValueOf(txouts, outs, TRUE)
        i == InputValueOf(ins, txins)
    IN  IF o > i THEN 0 ELSE i - o

\* TxBuilder.ActualFee()
ActualFeeOf(ins, txins, txouts, outs) ==
    LET o == ToInt64(OutputValueOf(txouts, outs, TRUE))
        i == ToInt64(InputValueOf(ins, txins))
    IN  ToInt64(i - o)

EstimatedInputSizeOfScript(input, txin) ==
    LET known == InputSize(input.LockingScript)
    IN  IF known.err THEN MaximumP2PKHInputSize ELSE known.size

\* The size one input adds to the estimate.
EstimatedInputSize(input, txin) ==
    LET d == UnlockingDataOf(txin)
        known == InputSize(input.LockingScript)
    IN  IF input.LockingScript.len = 0 /\ d.ok
        THEN InputBaseSize + VarIntSerializeSize(d.Size) + ToInt64(d.Size)
        ELSE IF known.err THEN MaximumP2PKHInputSize
        ELSE known.size

RECURSIVE InputsSizeFrom(_, _, _)
InputsSizeFrom(ins, txins, i) ==
    IF i > Len(ins) THEN 0
    ELSE EstimatedInputSize(ins[i], txins[i]) + InputsSizeFrom(ins, txins, i + 1)

\* The loop of EstimatedSize over the outputs lo..hi, summed by halves.
RECURSIVE OutputsSizeBetween(_, _, _)
OutputsSizeBetween(txouts, lo, hi) ==
    IF lo > hi THEN 0
    ELSE IF lo = hi THEN SerializeSize(txouts[lo])
    ELSE OutputsSizeBetween(txouts, lo, (lo + hi) \div 2)
         + OutputsSizeBetween(txouts, ((lo + hi) \div 2) + 1, hi)

OutputsSizeFrom(txouts, i) == OutputsSizeBetween(txouts, i, Len(txouts))

\* TxBuilder.EstimatedSize()
EstimatedSizeOf(ins, txins, txouts) ==
    BaseTxSize + VarIntSerializeSize(Len(txins)) + VarIntSerializeSize(Len(txouts))
    + InputsSizeFrom(ins, txins, 1) + OutputsSizeFrom(txouts, 1)

\* TxBuilder.EstimatedFee()
EstimatedFeeOf(ins, txins, txouts, rate) ==
    EstimatedFeeValue(EstimatedSizeOf(ins, txins, txouts), rate)

(***************************************************************************)
(* The change reconciler.                                                  *)
(***************************************************************************)
Result(txouts, outs, done, err) ==
    [TxOut |-> txouts, Outputs |-> outs, done |-> done, err |-> err]

\* Variant: the loop without its break, which ends on the last such output.
FindChangeOutputLast(outs) ==
    IF \E i \in 1..Len(outs) : outs[i].IsRemainder
    THEN CHOOSE i \in 1..Len(outs) :
             outs[i].IsRemainder /\ \A j \in (i + 1)..Len(outs) : ~outs[j].IsRemainder
    ELSE NoChangeOutput

\* "Find change output": the first output flagged IsRemainder, by position.
FindChangeOutput(outs) ==
    IF \E i \in 1..Len(outs) : outs[i].IsRemainder
    THEN CHOOSE i \in 1..Len(outs) :
             outs[i].IsRemainder /\ \A j \in 1..(i - 1) : ~outs[j].IsRemainder
    ELSE NoChangeOutput

\* Variants of the comparison: inclusive, and left out.
NotEnoughChangeInclusive(value, amount) == value <= ToUint64(amount)

NotEnoughChangeUnchecked(value, amount) == FALSE

\* tx.MsgTx.TxOut[changeOutputIndex].Value < uint64(amount)
NotEnoughChange(value, amount) == value < ToUint64(amount)

\* "Check if change is below dust"
BelowCost(value, cost) == value < cost.outputFee + cost.inputFee

\* Variant: the change is assigned the amount, = for -=.
DecreaseChangeAssigned(value, amount) == ToUint64(amount)

\* "Decrease change, thereby increasing the fee": Value -= uint64(amount)
DecreaseChange(value, amount) == ToUint64(value - ToUint64(amount))

\* Variant: the negation of the amount left out.
IncreaseChangeNotNegated(value, amount) == ToUint64(value + ToUint64(amount))

\* "Increase change, thereby decreasing the fee": Value += uint64(-amount)
IncreaseChange(value, amount) == ToUint64(value + ToUint64(ToInt64(0 - amount)))

\* Variant: any change output may be removed.
MayRemoveAny(output) == TRUE

\* "Don't remove outputs unless they were added by fee adjustment"
MayRemove(output) == output.addedForFee

\* Variant: the slice bounds off by one, append(s[:i+1], s[i+2:]...).
RemoveOutputNext(s, i) == SubSeq(s, 1, i) \o SubSeq(s, i + 2, Len(s))

\* append(s[:i], s[i+1:]...)
RemoveOutput(s, i) == SubSeq(s, 1, i - 1) \o SubSeq(s, i + 1, Len(s))

\* TxBuilder.AddOutput(lockingScript, value, isRemainder, isDust)
AddOutput(txouts, outs, lockingScript, value, isRemainder, isDust) ==
    [TxOut |-> Append(txouts, [Value |-> value, LockingScript |-> lockingScript]),
     Outputs |-> Append(outs, [IsRemainder |-> isRemainder, IsDust |-> isDust,
                               addedForFee |-> FALSE, KeyID |-> ""]),
     err |-> "nil"]

\* Variant: the fee of the added bytes alone, not the difference of the fees.
ChangeOutputFeeOfBytes(currentSize, changeScript, rate) ==
    IF changeScript.len = 0
    THEN EstimatedFeeValue(P2PKHOutputSize, rate)
    ELSE EstimatedFeeValue(OutputSize(changeScript), rate)

\* The fee the change output would itself add: newFee - currentFee.
ChangeOutputFee(currentSize, changeScript, rate) ==
    LET newSize == IF changeScript.len = 0
                   THEN currentSize + P2PKHOutputSize
                   ELSE currentSize + OutputSize(changeScript)
    IN  EstimatedFeeValue(newSize, rate) - EstimatedFeeValue(currentSize, rate)

\* The cost a new change output has to exceed to be worth adding.
NewChangeCost(changeScript, rate) ==
    IF changeScript.len = 0
    THEN [outputFee |-> EstimatedFeeValue(P2PKHOutputSize * 2, rate),
          inputFee |-> EstimatedFeeValue(MaximumP2PKHInputSize * 2, rate)]
    ELSE LET c == OutputTotalCost(changeScript, rate)
         IN  [outputFee |-> c.outputFee, inputFee |-> c.inputFee]

\* Variant: the fee of the spending input left out.
WorthAddingOutputOnly(adjustment, cost) == adjustment > cost.outputFee

\* adjustment > outputFee+inputFee
WorthAdding(adjustment, cost) == adjustment > cost.outputFee + cost.inputFee

\* amount > 0: "Increase fee, transfer from change"
IncreaseFee(txouts, outs, rate, changeOutputIndex, amount) ==
    IF changeOutputIndex = NoChangeOutput
    THEN Result(txouts, outs, FALSE, "ErrInsufficientValue")
    ELSE IF NotEnoughChange(txouts[changeOutputIndex].Value, amount)
    THEN Result(txouts, outs, FALSE, "ErrInsufficientValue")
    ELSE LET decreased == [txouts EXCEPT ![changeOutputIndex].Value =
                                             DecreaseChange(@, amount)]
             cost == OutputTotalCost(decreased[changeOutputIndex].LockingScript, rate)
         IN  IF BelowCost(decreased[changeOutputIndex].Value, cost)
             THEN IF ~MayRemove(outs[changeOutputIndex])
                  THEN Result(decreased, outs, FALSE, "ErrInsufficientValue")
                  ELSE Result(RemoveOutput(decreased, changeOutputIndex),
                              RemoveOutput(outs, changeOutputIndex), TRUE, "nil")
             ELSE Result(decreased, outs, FALSE, "nil")

\* amount < 0 and no change output: add one if it is worth its cost.
CreateChange(ins, txins, txouts, outs, changeScript, rate, amount) ==
    LET currentSize == ToUint64(EstimatedSizeOf(ins, txins, txouts))
        changeOutputFee == ChangeOutputFee(currentSize, changeScript, rate)
        negated == ToUint64(ToInt64(0 - amount))
        adjustment == negated - changeOutputFee
        added == AddOutput(txouts, outs, changeScript, adjustment, TRUE, FALSE)
        last == Len(added.Outputs)
    IN  IF changeOutputFee > negated
        THEN Result(txouts, outs, TRUE, "nil")
        ELSE IF WorthAdding(adjustment, NewChangeCost(changeScript, rate))
        THEN IF changeScript.len = 0
             THEN Result(txouts, outs, FALSE, "ErrChangeAddressNeeded")
             ELSE IF added.err # "nil"
             THEN Result(txouts, outs, FALSE, added.err)
             ELSE Result(added.TxOut,
                         [added.Outputs EXCEPT ![last].KeyID = "ChangeKeyID",
                                               ![last].addedForFee = TRUE],
                         FALSE, "nil")
        ELSE Result(txouts, outs, TRUE, "nil")

\* amount < 0: "Decrease fee, transfer to change"
DecreaseFee(ins, txins, txouts, outs, changeScript, rate, changeOutputIndex, amount) ==
    IF changeOutputIndex = NoChangeOutput
    THEN CreateChange(ins, txins, txouts, outs, changeScript, rate, amount)
    ELSE Result([txouts EXCEPT ![changeOutputIndex].Value = IncreaseChange(@, amount)],
                outs, FALSE, "nil")

\* TxBuilder.AdjustFee(amount)
AdjustFee(ins, txins, txouts, outs, changeScript, rate, amount) ==
    IF amount = 0
    THEN Result(txouts, outs, TRUE, "nil")
    ELSE IF amount > 0
    THEN IncreaseFee(txouts, outs, rate, FindChangeOutput(outs), amount)
    ELSE DecreaseFee(ins, txins, txouts, outs, changeScript, rate,
                     FindChangeOutput(outs), amount)

(***************************************************************************)
(* The transactions a caller has built before reconciliation, and the      *)
(* amounts it asks for.                                                    *)
(***************************************************************************)
Input(lockingScript, value, unlockingScript) ==
    [in |-> [LockingScript |-> lockingScript, Value |-> value],
     txin |-> [UnlockingScript |-> unlockingScript]]

Output(lockingScript, value, isRemainder) ==
    [txout |-> [Value |-> value, LockingScript |-> lockingScript],
     out |-> [IsRemainder |-> isRemainder, IsDust |-> FALSE,
              addedForFee |-> FALSE, KeyID |-> ""]]

\* A known P2PKH output being spent.
KnownInput == Input(P2PKHScript, 1000, EmptyUnlockingScript)

\* A counterparty's input, known only by the UnlockingData declaration in its
\* placeholder unlocking script.
DeclaredInput ==
    Input(EmptyScript, 0, Declaring(108, 600))

\* The same, declaring the largest value the declaration can carry.
DeclaredMaxInput ==
    Input(EmptyScript, 0, Declaring(108, MaxUint64))

\* An input nothing is known about: no locking script, value or declaration.
UnknownInput == Input(EmptyScript, 0, EmptyUnlockingScript)

\* The inputs of the transactions reconciled.
InputLists ==
    { <<>>, <<KnownInput>>, <<DeclaredMaxInput>>, <<UnknownInput>>,
      <<KnownInput, DeclaredInput>> }

\* A payment, and two change outputs the caller asked for itself.
OutputChoices ==
    { Output(P2PKHScript, 500, FALSE),
      Output(P2PKHScript, 1000, TRUE),
      Output(P2PKScript, 50, TRUE) }

\* 252 payments: the most outputs whose count still takes one byte.
FullOutputs ==
    [i \in 1..252 |-> IF i = 1 THEN Output(P2PKScript, 1, FALSE)
                                ELSE Output(P2PKHScript, 1, FALSE)]

\* The outputs of the transactions reconciled.
OutputLists ==
    UNION { [1..n -> OutputChoices] : n \in 0..MaxOutputs } \cup {FullOutputs}

ChangeScripts == {EmptyScript, P2PKHScript}

Rate(num, den) == [num |-> num, den |-> den]

FeeRates == {Rate(0, 1), Rate(1, 20), Rate(1, 1)}

Amounts == {MinInt64, -500, -200, -1, 0, 50, 200, 300}

NoCall ==
    [op |-> "none", amount |-> 0, done |-> FALSE, err |-> "nil",
     TxOut |-> <<>>, Outputs |-> <<>>]

\* No function has been given an argument, none has returned.
NoArg == [type |-> "none"]
NoRes == [fn |-> "none"]

Init ==
    /\ \E l \in InputLists :
           /\ Inputs = [i \in 1..Len(l) |-> l[i].in]
           /\ TxIn = [i \in 1..Len(l) |-> l[i].txin]
    /\ \E f \in OutputLists :
           /\ TxOut = [i \in 1..Len(f) |-> f[i].txout]
           /\ Outputs = [i \in 1..Len(f) |-> f[i].out]
    /\ ChangeScript \in ChangeScripts
    /\ FeeRate \in FeeRates
    /\ call = NoCall
    /\ calls = 0
    /\ arg = NoArg
    /\ res = NoRes

\* One call of AdjustFee(amount), made by the caller as op.
Call(op, amount) ==
    LET r == AdjustFee(Inputs, TxIn, TxOut, Outputs, ChangeScript, FeeRate, amount)
    IN  /\ calls < MaxCalls
        /\ TxOut' = r.TxOut
        /\ Outputs' = r.Outputs
        /\ call' = [op |-> op, amount |-> amount, done |-> r.done, err |-> r.err,
                    TxOut |-> TxOut, Outputs |-> Outputs]
        /\ calls' = calls + 1
        /\ UNCHANGED <<Inputs, TxIn, ChangeScript, FeeRate, arg, res>>

AdjustFeeCall == \E amount \in Amounts : Call("AdjustFee", amount)

\* TxBuilder.CalculateFee()
CalculateFee ==
    Call("CalculateFee",
         ToInt64(ToInt64(EstimatedFeeOf(Inputs, TxIn, TxOut, FeeRate))
                 - ActualFeeOf(Inputs, TxIn, TxOut, Outputs)))

\* TxBuilder.ZeroizeFee()
ZeroizeFee == Call("ZeroizeFee", ToInt64(0 - ActualFeeOf(Inputs, TxIn, TxOut, Outputs)))

Next == AdjustFeeCall \/ CalculateFee \/ ZeroizeFee

Spec == Init /\ [][Next]_vars

(***************************************************************************)
(* What the claims speak of, stated over the last call: call holds its     *)
(* amount and results and the outputs as they were when it was made.       *)
(***************************************************************************)
Called == call.op # "none"

\* The position of the first IsRemainder output before the call (0: none).
PreChange ==
    LET flagged == {i \in 1..Len(call.Outputs) : call.Outputs[i].IsRemainder}
    IN  IF flagged = {} THEN 0
        ELSE CHOOSE i \in flagged : \A j \in flagged : i <= j

PreValue == call.TxOut[PreChange].Value

\* outputFee + inputFee of a locking script at the transaction's fee rate.
TotalCost(lockingScript) ==
    OutputTotalCost(lockingScript, FeeRate).outputFee
    + OutputTotalCost(lockingScript, FeeRate).inputFee

\* s without its element at position i.
Without(s, i) == [k \in 1..(Len(s) - 1) |-> IF k < i THEN s[k] ELSE s[k + 1]]

\* The size estimate before the call, and the fee one more change output
\* induces: of the configured change script, or of a P2PKH output when none
\* is configured.
PreSize == EstimatedSizeOf(Inputs, TxIn, call.TxOut)

AssumedChangeSize ==
    IF ChangeScript = EmptyScript THEN P2PKHOutputSize ELSE OutputSize(ChangeScript)

InducedCost ==
    EstimatedFeeValue(PreSize + AssumedChangeSize, FeeRate)
    - EstimatedFeeValue(PreSize, FeeRate)

\* outputFee + inputFee a new change output is held against: of the
\* configured change script, or of two P2PKH outputs and inputs when none is.
NewChangeThreshold ==
    IF ChangeScript = EmptyScript
    THEN EstimatedFeeValue(2 * P2PKHOutputSize, FeeRate)
         + EstimatedFeeValue(2 * MaximumP2PKHInputSize, FeeRate)
    ELSE TotalCost(ChangeScript)

Adjustment == (0 - call.amount) - InducedCost

\* The cases of the claims.
ShrinkKept ==
    /\ Called /\ call.amount > 0 /\ PreChange # 0
    /\ PreValue >= call.amount
    /\ PreValue - call.amount >= TotalCost(call.TxOut[PreChange].LockingScript)

ShrinkBelowCost ==
    /\ Called /\ call.amount > 0 /\ PreChange # 0
    /\ PreValue >= call.amount
    /\ PreValue - call.amount < TotalCost(call.TxOut[PreChange].LockingScript)

NoChangeBefore == Called /\ call.amount < 0 /\ PreChange = 0

ChangeWorthAdding ==
    /\ NoChangeBefore
    /\ InducedCost <= 0 - call.amount
    /\ Adjustment > NewChangeThreshold

\* C1: AdjustFee(amount > 0) on a first IsRemainder output of value
\* v >= amount with v - amount >= outputFee + inputFee sets its value to
\* v - amount, keeps the number of outputs and returns (false, nil).
C1_ShrinkInPlace ==
    ShrinkKept =>
        /\ Len(TxOut) = Len(call.TxOut) /\ Len(Outputs) = Len(call.Outputs)
        /\ TxOut[PreChange].Value = PreValue - call.amount
        /\ call.done = FALSE /\ call.err = "nil"

C1_Witness == ShrinkKept /\ TxOut[PreChange].Value = PreValue - call.amount

\* C2, as stated: when the reduced change still exceeds its own total cost
\* the change becomes value - targetDelta, is not deleted, and the call
\* returns settled = true.
C2_AsStated ==
    (ShrinkKept /\ PreValue - call.amount > TotalCost(call.TxOut[PreChange].LockingScript))
        => /\ Len(TxOut) = Len(call.TxOut)
           /\ TxOut[PreChange].Value = PreValue - call.amount
           /\ call.done = TRUE

\* C2, amended: in that case the change becomes value - targetDelta, is not
\* deleted, and the call returns settled = false.
C2_ShrinkNotSettled ==
    (ShrinkKept /\ PreValue - call.amount > TotalCost(call.TxOut[PreChange].LockingScript))
        => /\ Len(TxOut) = Len(call.TxOut)
           /\ TxOut[PreChange].Value = PreValue - call.amount
           /\ Outputs[PreChange] = call.Outputs[PreChange]
           /\ call.done = FALSE

C2_Witness ==
    /\ ShrinkKept /\ call.done = FALSE
    /\ PreValue = 1000 /\ call.amount = 200 /\ TxOut[PreChange].Value = 800

\* C3: AdjustFee(amount > 0) on a first IsRemainder output that the
\* reconciler added, of value v >= amount with v - amount < outputFee +
\* inputFee, removes it from TxOut and from Outputs at the same index,
\* keeps the other outputs in order, and returns (true, nil).
C3_DeleteAddedChange ==
    (ShrinkBelowCost /\ call.Outputs[PreChange].addedForFee)
        => /\ TxOut = Without(call.TxOut, PreChange)
           /\ Outputs = Without(call.Outputs, PreChange)
           /\ call.done = TRUE /\ call.err = "nil"

C3_Witness ==
    /\ ShrinkBelowCost /\ call.Outputs[PreChange].addedForFee
    /\ Len(TxOut) = Len(call.TxOut) - 1 /\ Len(TxOut) > 0

\* The outputs the reconciler did not add, in order, without their values.
CallerOutputs(txouts, outs) ==
    LET keep == SelectSeq([i \in 1..Len(outs) |-> i], LAMBDA i : ~outs[i].addedForFee)
    IN  [k \in 1..Len(keep) |->
            [LockingScript |-> txouts[keep[k]].LockingScript, out |-> outs[keep[k]]]]

\* C4: no AdjustFee call removes an output whose addedForFee flag is false;
\* when shrinking such a change output would leave it below outputFee +
\* inputFee the call fails with ErrInsufficientValue and deletes nothing.
C4_CallerChangeKept ==
    /\ Called => CallerOutputs(TxOut, Outputs) = CallerOutputs(call.TxOut, call.Outputs)
    /\ (ShrinkBelowCost /\ ~call.Outputs[PreChange].addedForFee)
           => /\ call.err = "ErrInsufficientValue"
              /\ Len(TxOut) = Len(call.TxOut) /\ Outputs = call.Outputs

C4_Witness ==
    /\ ShrinkBelowCost /\ ~call.Outputs[PreChange].addedForFee
    /\ call.err = "ErrInsufficientValue"

\* C5: AdjustFee(amount > 0) fails with ErrInsufficientValue when no output
\* is flagged IsRemainder, and when the first IsRemainder output's value is
\* strictly less than amount.
C5_InsufficientValue ==
    (Called /\ call.amount > 0 /\ (PreChange = 0 \/ PreValue < call.amount))
        => call.err = "ErrInsufficientValue"

C5_Witness ==
    /\ Called /\ call.amount > 0 /\ PreChange # 0 /\ PreValue < call.amount
    /\ call.err = "ErrInsufficientValue"

\* C6: AdjustFee(amount < 0) with an IsRemainder output adds -amount (a
\* uint64 addition) to the value of the first such output, leaves later
\* IsRemainder outputs and every other output as they were, adds and
\* removes nothing, and returns (false, nil).
C6_GrowFirstChange ==
    (Called /\ call.amount < 0 /\ PreChange # 0)
        => /\ TxOut = [call.TxOut EXCEPT ![PreChange].Value =
                                             (PreValue + (0 - call.amount)) % Modulus]
           /\ Outputs = call.Outputs
           /\ call.done = FALSE /\ call.err = "nil"

C6_Witness ==
    /\ Called /\ call.amount < 0 /\ PreChange # 0
    /\ \E j \in (PreChange + 1)..Len(call.Outputs) : call.Outputs[j].IsRemainder
    /\ TxOut[PreChange].Value = PreValue + (0 - call.amount)

\* C7: AdjustFee(amount < 0) without an IsRemainder output, when the induced
\* cost is at most -amount and adjustment = -amount - inducedCost exceeds
\* outputFee + inputFee: with a change script configured exactly one output
\* is appended, of value adjustment, flagged IsRemainder and addedForFee;
\* without one the call fails with ErrChangeAddressNeeded and adds nothing.
C7_CreateChange ==
    ChangeWorthAdding =>
        IF ChangeScript # EmptyScript
        THEN /\ Len(TxOut) = Len(call.TxOut) + 1 /\ Len(Outputs) = Len(call.Outputs) + 1
             /\ SubSeq(TxOut, 1, Len(call.TxOut)) = call.TxOut
             /\ SubSeq(Outputs, 1, Len(call.Outputs)) = call.Outputs
             /\ TxOut[Len(TxOut)].Value = Adjustment
             /\ TxOut[Len(TxOut)].LockingScript = ChangeScript
             /\ Outputs[Len(Outputs)].IsRemainder
             /\ Outputs[Len(Outputs)].addedForFee
             /\ call.err = "nil"
        ELSE /\ call.err = "ErrChangeAddressNeeded"
             /\ TxOut = call.TxOut /\ Outputs = call.Outputs

C7_Witness ==
    /\ ChangeWorthAdding /\ ChangeScript # EmptyScript /\ InducedCost > 0
    /\ Len(TxOut) = Len(call.TxOut) + 1

\* C8: AdjustFee(amount < 0) without an IsRemainder output changes nothing
\* and returns (true, nil) when the induced cost exceeds -amount or the net
\* adjustment is not strictly greater than outputFee + inputFee.
C8_LeftAsFee ==
    (NoChangeBefore /\ (InducedCost > 0 - call.amount \/ Adjustment <= NewChangeThreshold))
        => /\ TxOut = call.TxOut /\ Outputs = call.Outputs
           /\ call.done = TRUE /\ call.err = "nil"

C8_Witness ==
    /\ NoChangeBefore /\ InducedCost <= 0 - call.amount /\ Adjustment > 0
    /\ Adjustment <= NewChangeThreshold /\ call.done = TRUE

\* The outputs after a step differ from those before it in nothing but the
\* value or the existence of the output at position i.
OnlyChangeTouched(i) ==
    \/ /\ Outputs' = Outputs /\ Len(TxOut') = Len(TxOut)
       /\ \A k \in 1..Len(TxOut) :
              /\ TxOut'[k].LockingScript = TxOut[k].LockingScript
              /\ k # i => TxOut'[k] = TxOut[k]
    \/ /\ TxOut' = Without(TxOut, i) /\ Outputs' = Without(Outputs, i)

OneAppended ==
    /\ Len(TxOut') = Len(TxOut) + 1 /\ Len(Outputs') = Len(Outputs) + 1
    /\ SubSeq(TxOut', 1, Len(TxOut)) = TxOut
    /\ SubSeq(Outputs', 1, Len(Outputs)) = Outputs

FirstFlagged ==
    LET flagged == {i \in 1..Len(Outputs) : Outputs[i].IsRemainder}
    IN  IF flagged = {} THEN 0
        ELSE CHOOSE i \in flagged : \A j \in flagged : i <= j

\* C9: every AdjustFee call changes at most one output, the value or the
\* existence of the first IsRemainder output or one newly appended change
\* output, and leaves every input and every other output's value, script
\* and flags as they were; AdjustFee(0) changes nothing and returns true.
C9_AtMostOneOutput ==
    [][ /\ Inputs' = Inputs /\ TxIn' = TxIn
        /\ \/ TxOut' = TxOut /\ Outputs' = Outputs
           \/ FirstFlagged # 0 /\ OnlyChangeTouched(FirstFlagged)
           \/ FirstFlagged = 0 /\ OneAppended
        /\ call'.amount = 0 =>
               TxOut' = TxOut /\ Outputs' = Outputs /\ call'.done = TRUE ]_vars

C9_Witness ==
    /\ Called /\ Len(TxOut) = Len(call.TxOut) /\ Len(TxOut) >= 2
    /\ TxOut # call.TxOut

\* C10: in every state ActualFee() is InputValue() - OutputValue(true) as a
\* signed number, and Fee() is that difference clamped at 0.
C10_FeeIsDifference ==
    LET i == InputValueOf(Inputs, TxIn)
        o == OutputValueOf(TxOut, Outputs, TRUE)
    IN  /\ ActualFeeOf(Inputs, TxIn, TxOut, Outputs) = i - o
        /\ FeeOf(Inputs, TxIn, TxOut, Outputs) = (IF i - o < 0 THEN 0 ELSE i - o)
        /\ FeeOf(Inputs, TxIn, TxOut, Outputs)
               = (IF ActualFeeOf(Inputs, TxIn, TxOut, Outputs) < 0 THEN 0
                  ELSE ActualFeeOf(Inputs, TxIn, TxOut, Outputs))

(***************************************************************************)
(* Package fees: the unlocking size of a locking script.  Where the source *)
(* enters the agent branch on err != nil, info carries no script: the      *)
(* dereference of info.AgentLockingScript ends the call in a panic.        *)
(***************************************************************************)
EstimateUnlockingSize(lockingScript) ==
    IF IsP2PK(lockingScript)
    THEN [size |-> MaxSignaturesPushDataSize, err |-> "nil"]
    ELSE IF IsP2PKH(lockingScript)
    THEN [size |-> MaxSignaturesPushDataSize + PublicKeyPushDataSize, err |-> "nil"]
    ELSE IF ~MultiPKHCounts(lockingScript).err
    THEN LET c == MultiPKHCounts(lockingScript)
         IN  [size |-> (c.total - c.required)
                       + c.required * (MaxSignaturesPushDataSize + PublicKeyPushDataSize + 1),
              err |-> "nil"]
    ELSE IF ~MatchScript(lockingScript).matched
    THEN [size |-> 0, err |-> "panic"]
    ELSE [size |-> 0, err |-> "ErrWrongScriptTemplate"]

(***************************************************************************)
(* Package fees: the size and the input value of a transaction with its    *)
(* spent outputs (ins[i] is tx.InputOutput(i)).                            *)
(***************************************************************************)
\* unlocker.UnlockingSize(lockingScript): the caller's unlocker, here the
\* one that knows the templates of UnlockingScriptSize.
UnlockerUnlockingSize(lockingScript) == UnlockingScriptSize(lockingScript)

\* fees.EstimateInputSize
EstimateInputSize(txin, lockingScript) ==
    IF lockingScript.len # 0
    THEN LET u == UnlockerUnlockingSize(lockingScript)
         IN  IF u.err THEN [size |-> 0, err |-> "unlocking size"]
             ELSE [size |-> InputBaseSize + VarIntSerializeSize(u.size) + u.size,
                   err |-> "nil"]
    ELSE LET d == UnlockingDataOf(txin)
         IN  IF ~d.ok THEN [size |-> 0, err |-> "MissingUnlockingData"]
             ELSE [size |-> InputBaseSize + VarIntSerializeSize(d.Size) + ToInt64(d.Size),
                   err |-> "nil"]

\* The loop of fees.EstimateSize over the inputs from i on.
RECURSIVE EstimateInputsSizeFrom(_, _, _)
EstimateInputsSizeFrom(ins, txins, i) ==
    IF i > Len(txins) THEN [size |-> 0, err |-> "nil"]
    ELSE LET this == EstimateInputSize(txins[i], ins[i].LockingScript)
             rest == EstimateInputsSizeFrom(ins, txins, i + 1)
         IN  IF this.err # "nil" THEN this
             ELSE IF rest.err # "nil" THEN rest
             ELSE [size |-> this.size + rest.size, err |-> "nil"]

\* fees.EstimateSize
EstimateSize(ins, txins, txouts) ==
    LET inputs == EstimateInputsSizeFrom(ins, txins, 1)
    IN  IF inputs.err # "nil" THEN [size |-> 0, err |-> inputs.err]
        ELSE [size |-> BaseTxSize + VarIntSerializeSize(Len(txins))
                       + VarIntSerializeSize(Len(txouts))
                       + inputs.size + OutputsSizeFrom(txouts, 1),
              err |-> "nil"]

\* fees.InputValue
InputValue(txin, inputOutput) ==
    IF inputOutput.Value # 0 THEN [value |-> inputOutput.Value, err |-> "nil"]
    ELSE LET d == UnlockingDataOf(txin)
         IN  IF ~d.ok THEN [value |-> 0, err |-> "MissingUnlockingData"]
             ELSE [value |-> d.Size, err |-> "nil"]

\* The loop of fees.InputsValue over the inputs from i on.
RECURSIVE InputsValueFrom(_, _, _)
InputsValueFrom(ins, txins, i) ==
    IF i > Len(txins) THEN [value |-> 0, err |-> "nil"]
    ELSE LET this == InputValue(txins[i], ins[i])
             rest == InputsValueFrom(ins, txins, i + 1)
         IN  IF this.err # "nil" THEN this
             ELSE IF rest.err # "nil" THEN rest
             ELSE [value |-> ToUint64(this.value + rest.value), err |-> "nil"]

\* fees.InputsValue
InputsValue(ins, txins) == InputsValueFrom(ins, txins, 1)

\* fees.EstimateFeeValue
EstimateFeeValue(size, rate) == (size * rate.num + rate.den - 1) \div rate.den

DustInputSize == 148

DustLimitOfOutput(outputSize, dustFeeRate) ==
    IF dustFeeRate.num = 0 THEN 1
    ELSE LET dust == EstimateFeeValue(outputSize * 3, dustFeeRate)
         IN  IF dust < 1 THEN 1 ELSE dust

\* fees.DustLimit
DustLimit(outputSize, dustFeeRate) ==
    IF dustFeeRate.num = 0 THEN 1
    ELSE LET dust == EstimateFeeValue((outputSize + DustInputSize) * 3, dustFeeRate)
         IN  IF dust < 1 THEN 1 ELSE dust

(***************************************************************************)
(* The functions that take no TxBuilder, each called once on an argument.  *)
(***************************************************************************)
\* The length of a script of the given template, wrappers and clause.
ScriptLen(kind, agent, hard, total) ==
    (CASE kind = "P2PK" -> P2PKOutputScriptSize
       [] kind = "P2PKH" -> P2PKHOutputScriptSize
       [] kind = "MultiPKH" -> 10 + 30 * total
       [] OTHER -> 5)
    + 50 * agent + (IF hard THEN 1 ELSE 0)

\* The locking scripts sized: every template, unrecognized ones too, bare
\* and under up to MaxDepth agent wrappers, with and without the
\* hard-verify clause, M-of-N for every 1 <= M <= N <= MaxSigners.
LockingScripts ==
    { Script(k, a, h, 0, 0, ScriptLen(k, a, h, 0)) :
          k \in {"P2PK", "P2PKH", "other"}, a \in 0..MaxDepth, h \in BOOLEAN }
    \cup { Script("MultiPKH", x[1], x[2], x[3], x[4], ScriptLen("MultiPKH", x[1], x[2], x[4])) :
          x \in { y \in (0..MaxDepth) \X BOOLEAN \X (1..MaxSigners) \X (1..MaxSigners) :
                      y[3] <= y[4] } }
    \cup {EmptyScript}

ScriptArgs == { [type |-> "script", script |-> s] : s \in LockingScripts }

\* An agent-wrapped P2PKH script, and a script of no known template.
AgentScript == Script("P2PKH", 1, FALSE, 0, 0, ScriptLen("P2PKH", 1, FALSE, 0))
OtherScript == Script("other", 0, FALSE, 0, 0, ScriptLen("other", 0, FALSE, 0))

\* The inputs of the transactions sized and valued: spent outputs known
\* and unknown, with a declaration of either kind, with none, with one that
\* does not parse, with one the script only looks like carrying.
TxInputChoices ==
    { KnownInput, DeclaredInput, UnknownInput,
      Input(AgentScript, 700, EmptyUnlockingScript),
      Input(OtherScript, 40, EmptyUnlockingScript),
      Input(EmptyScript, 0, Declaring(300, 5)),
      Input(P2PKScript, 0, Declaring(252, 7)),
      Input(EmptyScript, 0, DeclaringSize(300)),
      Input(EmptyScript, 0, DeclaringVersion1),
      Input(EmptyScript, 0, NotFalseOpReturn) }

TxArgs ==
    { [type |-> "tx",
       Inputs |-> [i \in 1..Len(l) |-> l[i].in],
       TxIn |-> [i \in 1..Len(l) |-> l[i].txin],
       TxOut |-> o] :
          l \in UNION { [1..n -> TxInputChoices] : n \in 0..MaxInputs },
          o \in { <<>>, <<Output(P2PKHScript, 500, FALSE).txout>>,
                   <<Output(P2PKScript, 50, TRUE).txout,
                     Output(AgentScript, 1, FALSE).txout>> } }

\* The uint64 values at and around the thresholds of VarIntSerializeSize.
Uint64Args ==
    { [type |-> "uint64", digits |-> d] :
          d \in [1..4 -> {0, 252, 253, 65535}] }

\* The envelopes parsed: no protocol ID, either tag, another, several;
\* up to MaxItems items, numbers and not.
ItemChoices == {OpNumber(0), OpNumber(1), PushNumberScriptItemUnsigned(300), OpDup}

PayloadArgs ==
    { [type |-> "payload", payload |-> [ProtocolIDs |-> ids, Payload |-> items]] :
          ids \in { <<>>, <<"UL">>, <<"UL_S">>, <<"T2">>, <<"UL", "UL_S">>, <<"T2", "UL">>,
                    <<"T2", "UL_S">> },
          items \in UNION { [1..n -> ItemChoices] : n \in 0..MaxItems } }

\* The numbers declared: small ones, those around a byte's and a word's
\* sign bit, the largest.
DeclarableNumbers ==
    {0, 1, 16, 17, 127, 128, 255, 256, MaxInt64, MaxInt64 + 1, MaxUint64}

MessageArgs ==
    { [type |-> "UnlockingData", Size |-> x, Value |-> y] :
          x \in DeclarableNumbers, y \in DeclarableNumbers }
    \cup { [type |-> "UnlockingSize", UnlockingSize |-> x] : x \in DeclarableNumbers }

\* The sizes charged and the rates they are charged at.
Sizes == (0..MaxSize) \cup {159, 226, 1000, MaxUint64}

Rates == {Rate(0, 1), Rate(1, 20), Rate(1, 3), Rate(1, 2), Rate(1, 1), Rate(3, 2), Rate(50, 1)}

FeeArgs == { [type |-> "fee", size |-> n, rate |-> r] : n \in Sizes, r \in Rates }

PureArgs ==
    ScriptArgs \cup TxArgs \cup Uint64Args \cup PayloadArgs \cup MessageArgs \cup FeeArgs

\* The TxBuilder takes no part: it is empty and stays so.
PureInit ==
    /\ Inputs = <<>> /\ TxIn = <<>> /\ TxOut = <<>> /\ Outputs = <<>>
    /\ ChangeScript = EmptyScript
    /\ FeeRate = Rate(0, 1)
    /\ call = NoCall
    /\ calls = 0
    /\ arg \in PureArgs
    /\ res = NoRes

\* The function called returns r.
Return(r) ==
    /\ res = NoRes
    /\ res' = r
    /\ UNCHANGED <<Inputs, TxIn, TxOut, Outputs, ChangeScript, FeeRate, call, calls, arg>>

\* txbuilder.UnlockingScriptSize(lockingScript)
CallUnlockingScriptSize ==
    /\ arg.type = "script"
    /\ LET r == UnlockingScriptSize(arg.script)
       IN  Return([fn |-> "UnlockingScriptSize", size |-> r.size,
                   err |-> IF r.err THEN "ErrUnknownScriptTemplate" ELSE "nil"])

\* fees.EstimateUnlockingSize(lockingScript)
CallEstimateUnlockingSize ==
    /\ arg.type = "script"
    /\ LET r == EstimateUnlockingSize(arg.script)
       IN  Return([fn |-> "EstimateUnlockingSize", size |-> r.size, err |-> r.err])

\* TxBuilder.EstimatedSize(), which has no error to return.
CallEstimatedSize ==
    /\ arg.type = "tx"
    /\ Return([fn |-> "EstimatedSize",
               size |-> EstimatedSizeOf(arg.Inputs, arg.TxIn, arg.TxOut), err |-> "nil"])

\* fees.EstimateSize(tx, unlocker)
CallEstimateSize ==
    /\ arg.type = "tx"
    /\ LET r == EstimateSize(arg.Inputs, arg.TxIn, arg.TxOut)
       IN  Return([fn |-> "EstimateSize", size |-> r.size, err |-> r.err])

\* TxBuilder.InputValue(), which has no error to return.
CallInputValue ==
    /\ arg.type = "tx"
    /\ Return([fn |-> "InputValue",
               value |-> InputValueOf(arg.Inputs, arg.TxIn), err |-> "nil"])

\* fees.InputsValue(tx)
CallInputsValue ==
    /\ arg.type = "tx"
    /\ LET r == InputsValue(arg.Inputs, arg.TxIn)
       IN  Return([fn |-> "InputsValue", value |-> r.value, err |-> r.err])

\* txbuilder.VarIntSerializeSize(val)
CallVarIntSerializeSize ==
    /\ arg.type = "uint64"
    /\ Return([fn |-> "VarIntSerializeSize", size |-> VarIntSerializeSizeDigits(arg.digits)])

\* m.Write() of the message given.
CallWrite ==
    \/ /\ arg.type = "UnlockingData"
       /\ Return([fn |-> "Write", data |-> UnlockingDataWrite(arg)])
    \/ /\ arg.type = "UnlockingSize"
       /\ Return([fn |-> "Write", data |-> UnlockingSizeWrite(arg)])

\* Parse of package p: the three results of parse.
Parsed(p, parse) ==
    [fn |-> "Parse", of |-> p, msg |-> parse.msg, payload |-> parse.payload,
     err |-> parse.err]

\* unlocking_data.Parse(payload), of the envelope given or of the one written.
CallUnlockingDataParse ==
    \/ /\ arg.type = "payload"
       /\ Return(Parsed("unlocking_data", UnlockingDataParse(arg.payload)))
    \/ /\ arg.type = "UnlockingData" /\ res.fn = "Write"
       /\ res' = Parsed("unlocking_data", UnlockingDataParse(res.data))
       /\ UNCHANGED <<Inputs, TxIn, TxOut, Outputs, ChangeScript, FeeRate, call, calls, arg>>

\* unlocking_size.Parse(payload), likewise.
CallUnlockingSizeParse ==
    \/ /\ arg.type = "payload"
       /\ Return(Parsed("unlocking_size", UnlockingSizeParse(arg.payload)))
    \/ /\ arg.type = "UnlockingSize" /\ res.fn = "Write"
       /\ res' = Parsed("unlocking_size", UnlockingSizeParse(res.data))
       /\ UNCHANGED <<Inputs, TxIn, TxOut, Outputs, ChangeScript, FeeRate, call, calls, arg>>

\* txbuilder.EstimatedFeeValue(size, feeRate)
CallEstimatedFeeValue ==
    /\ arg.type = "fee"
    /\ Return([fn |-> "EstimatedFeeValue", fee |-> EstimatedFeeValue(arg.size, arg.rate)])

\* txbuilder.EstimatedFeeValueDown(size, feeRate)
CallEstimatedFeeValueDown ==
    /\ arg.type = "fee"
    /\ Return([fn |-> "EstimatedFeeValueDown",
               fee |-> EstimatedFeeValueDown(arg.size, arg.rate)])

\* fees.EstimateFeeValue(size, feeRate)
CallEstimateFeeValue ==
    /\ arg.type = "fee"
    /\ Return([fn |-> "EstimateFeeValue", fee |-> EstimateFeeValue(arg.size, arg.rate)])

\* fees.DustLimit(outputSize, dustFeeRate)
CallDustLimit ==
    /\ arg.type = "fee"
    /\ Return([fn |-> "DustLimit", dust |-> DustLimit(arg.size, arg.rate)])

PureNext ==
    \/ CallEstimatedFeeValue
    \/ CallEstimatedFeeValueDown
    \/ CallEstimateFeeValue
    \/ CallDustLimit
    \/ CallWrite
    \/ CallUnlockingDataParse
    \/ CallUnlockingSizeParse
    \/ CallVarIntSerializeSize
    \/ CallUnlockingScriptSize
    \/ CallEstimateUnlockingSize
    \/ CallEstimatedSize
    \/ CallEstimateSize
    \/ CallInputValue
    \/ CallInputsValue

PureSpec == PureInit /\ [][PureNext]_vars

(***************************************************************************)
(* The claims about the size of unlocking scripts.                         *)
(***************************************************************************)
\* The script is bare (no agent wrapper, no hard-verify clause) and of
\* the given template.
Bare(s, kind) == s.agent = 0 /\ ~s.hard /\ s.kind = kind

Recognized(s) == Bare(s, "P2PK") \/ Bare(s, "P2PKH") \/ Bare(s, "MultiPKH")

\* C11: the unlocking size is decided by the template: 74 for P2PK, 108
\* for P2PKH, (N - M) + M * (74 + 34 + 1) for M-of-N multi-PKH, by both
\* estimators; UnlockingScriptSize answers a script that is none of these
\* and not agent wrapped with the unknown-template error and size 0.
C11_TemplateSizes ==
    res.fn \in {"UnlockingScriptSize", "EstimateUnlockingSize"} =>
        LET s == arg.script
        IN  /\ Bare(s, "P2PK") => res.size = 74 /\ res.err = "nil"
            /\ Bare(s, "P2PKH") => res.size = 74 + 34 /\ res.err = "nil"
            /\ Bare(s, "MultiPKH") =>
                   /\ res.size = (s.total - s.required) + s.required * (74 + 34 + 1)
                   /\ res.err = "nil"
            /\ res.fn = "UnlockingScriptSize" /\ s.agent = 0 /\ ~Recognized(s) =>
                   res.size = 0 /\ res.err = "ErrUnknownScriptTemplate"

C11_Witness ==
    /\ res.fn = "UnlockingScriptSize"
    /\ Bare(arg.script, "MultiPKH")
    /\ arg.script.required = 2 /\ arg.script.total = 3
    /\ res.size = 219

\* The size after k approval layers around a script of unlocking size n.
RECURSIVE Approved(_, _)
Approved(k, n) == IF k = 0 THEN n ELSE ApproveUnlockingSize(Approved(k - 1, n))

\* The script under all the agent wrappers, its hard-verify clause removed.
Innermost(s) == [s EXCEPT !.agent = 0, !.hard = FALSE]

\* C12: for an agent-wrapped script UnlockingScriptSize returns
\* ApproveUnlockingSize of the size of the inner script with its
\* hard-verify clause removed, at every nesting depth: ApproveUnlockingSize
\* applied once per wrapper to the innermost template's size (to 108 for
\* P2PKH); an unrecognized innermost template fails the whole call.
C12_AgentWrapped ==
    res.fn = "UnlockingScriptSize" /\ arg.script.agent > 0 =>
        LET s == arg.script
            inner == UnlockingScriptSize(Innermost(s))
        IN  /\ Recognized(Innermost(s)) =>
                   /\ res.err = "nil"
                   /\ res.size = Approved(s.agent, inner.size)
            /\ s.kind = "P2PKH" /\ s.agent = 1 => res.size = ApproveUnlockingSize(108)
            /\ ~Recognized(Innermost(s)) => res.err # "nil" /\ res.size = 0

C12_Witness ==
    /\ res.fn = "UnlockingScriptSize"
    /\ arg.script.agent = 2 /\ arg.script.kind = "P2PKH"
    /\ res.err = "nil" /\ res.size = ApproveUnlockingSize(ApproveUnlockingSize(108))

(***************************************************************************)
(* The claims about the size and the input value of a transaction.         *)
(***************************************************************************)
\* The bytes of the length prefix of n < 2^31 bytes or items.
VarInt(n) == IF n < 253 THEN 1 ELSE IF n < 65536 THEN 3 ELSE 5

\* The UnlockingData declarations a placeholder script is the writing of,
\* and the UnlockingSize declarations.
DeclaredNumbers == {5, 7, 108, 252, 300, 600}

DataDeclared(txin) ==
    { d \in [Size : DeclaredNumbers, Value : DeclaredNumbers] :
          txin.UnlockingScript = Declaring(d.Size, d.Value) }

SizeDeclared(txin) ==
    { n \in DeclaredNumbers : txin.UnlockingScript = DeclaringSize(n) }

DeclaredSize(txin) == (CHOOSE d \in DataDeclared(txin) : TRUE).Size

DeclaredValue(txin) == (CHOOSE d \in DataDeclared(txin) : TRUE).Value

\* Input i of the transaction sized has a known locking script of a
\* template with an unlocking size; it has none, but such a declaration.
KnownScript(i) ==
    /\ arg.Inputs[i].LockingScript.len # 0
    /\ ~UnlockingScriptSize(arg.Inputs[i].LockingScript).err

UnknownDeclared(i) ==
    arg.Inputs[i].LockingScript.len = 0 /\ DataDeclared(arg.TxIn[i]) # {}

\* 40 + varint(u) + u
InputBytes(u) == 40 + VarInt(u) + u

RECURSIVE SumOfInputBytes(_)
SumOfInputBytes(i) ==
    IF i > Len(arg.Inputs) THEN 0
    ELSE InputBytes(IF KnownScript(i)
                    THEN UnlockingScriptSize(arg.Inputs[i].LockingScript).size
                    ELSE DeclaredSize(arg.TxIn[i]))
         + SumOfInputBytes(i + 1)

RECURSIVE SumOfOutputBytes(_)
SumOfOutputBytes(j) ==
    IF j > Len(arg.TxOut) THEN 0
    ELSE 8 + VarInt(arg.TxOut[j].LockingScript.len) + arg.TxOut[j].LockingScript.len
         + SumOfOutputBytes(j + 1)

Sized == res.fn \in {"EstimatedSize", "EstimateSize"}

\* C13: the estimated size of a transaction whose inputs each have a known
\* locking script with an unlocking size u, or an empty one and a valid
\* UnlockingData declaration of size s, is 8 + varint(#inputs) +
\* varint(#outputs) + the sum of 40 + varint(u) + u, or 40 + varint(s) + s,
\* over the inputs + the sum of the outputs' serialized sizes, by both
\* estimators; a varint takes 1, 3, 5, 9 bytes, from 0, 0xFD, 0x10000,
\* 0x100000000 on.
C13_EstimatedSize ==
    /\ Sized /\ (\A i \in 1..Len(arg.Inputs) : KnownScript(i) \/ UnknownDeclared(i)) =>
           /\ res.err = "nil"
           /\ res.size = 8 + VarInt(Len(arg.TxIn)) + VarInt(Len(arg.TxOut))
                         + SumOfInputBytes(1) + SumOfOutputBytes(1)
    /\ res.fn = "VarIntSerializeSize" =>
           LET d == arg.digits
           IN  res.size = (CASE d[4] # 0 \/ d[3] # 0 -> 9
                             [] d[4] = 0 /\ d[3] = 0 /\ d[2] # 0 -> 5
                             [] d[4] = 0 /\ d[3] = 0 /\ d[2] = 0 /\ d[1] >= 253 -> 3
                             [] OTHER -> 1)

C13_Witness ==
    /\ Sized /\ Len(arg.Inputs) = 2
    /\ KnownScript(1) /\ UnknownDeclared(2) /\ DeclaredSize(arg.TxIn[2]) = 300
    /\ Len(arg.TxOut) = 1
    /\ res.size = 8 + 1 + 1 + (40 + 1 + 108) + (40 + 3 + 300) + (8 + 1 + 25)

\* Input i has no known locking script and no declaration of either kind;
\* it has none and an UnlockingSize declaration.
Undeclared(i) ==
    /\ arg.Inputs[i].LockingScript.len = 0
    /\ DataDeclared(arg.TxIn[i]) = {} /\ SizeDeclared(arg.TxIn[i]) = {}

UnknownSizeDeclared(i) ==
    arg.Inputs[i].LockingScript.len = 0 /\ SizeDeclared(arg.TxIn[i]) # {}

\* C14: the size estimate of a transaction with an input of unknown (empty)
\* locking script and no valid declaration fails with the missing
\* declaration error, by fees.EstimateSize and by TxBuilder.EstimatedSize.
C14_MissingDeclaration ==
    /\ Sized
    /\ \E i \in 1..Len(arg.Inputs) : Undeclared(i)
    /\ \A i \in 1..Len(arg.Inputs) : KnownScript(i) \/ UnknownDeclared(i) \/ Undeclared(i)
    => res.err = "MissingUnlockingData"

Valued == res.fn \in {"InputValue", "InputsValue"}

\* Input i has a known value; it has none, but an UnlockingData declaration.
KnownValue(i) == arg.Inputs[i].Value # 0

ValueDeclared(i) == arg.Inputs[i].Value = 0 /\ DataDeclared(arg.TxIn[i]) # {}

RECURSIVE SumOfInputValues(_)
SumOfInputValues(i) ==
    IF i > Len(arg.Inputs) THEN 0
    ELSE (IF KnownValue(i) THEN arg.Inputs[i].Value ELSE DeclaredValue(arg.TxIn[i]))
         + SumOfInputValues(i + 1)

\* C15: an input without a known value (zero) whose placeholder carries a
\* valid UnlockingData declaration adds the declared Value to the input
\* value, by fees.InputsValue and by TxBuilder.InputValue.
C15_DeclaredValue ==
    /\ Valued
    /\ \A i \in 1..Len(arg.Inputs) : KnownValue(i) \/ ValueDeclared(i)
    => res.err = "nil" /\ res.value = SumOfInputValues(1)

RECURSIVE SumOfDeclaredBytes(_)
SumOfDeclaredBytes(i) ==
    IF i > Len(arg.Inputs) THEN 0
    ELSE InputBytes(IF KnownScript(i)
                    THEN UnlockingScriptSize(arg.Inputs[i].LockingScript).size
                    ELSE IF UnknownDeclared(i) THEN DeclaredSize(arg.TxIn[i])
                    ELSE CHOOSE n \in SizeDeclared(arg.TxIn[i]) : TRUE)
         + SumOfDeclaredBytes(i + 1)

\* C20: an input of unknown locking script whose placeholder carries a
\* valid UnlockingSize declaration (tag UL_S) is sized from the declared
\* size, as with an UnlockingData declaration: no missing declaration
\* error, 40 + varint(s) + s bytes.
C20_SizeOnlyDeclaration ==
    /\ Sized
    /\ \E i \in 1..Len(arg.Inputs) : UnknownSizeDeclared(i)
    /\ \A i \in 1..Len(arg.Inputs) :
           KnownScript(i) \/ UnknownDeclared(i) \/ UnknownSizeDeclared(i)
    => /\ res.err = "nil"
       /\ res.size = 8 + VarInt(Len(arg.TxIn)) + VarInt(Len(arg.TxOut))
                     + SumOfDeclaredBytes(1) + SumOfOutputBytes(1)

(***************************************************************************)
(* The claims about the declaration codec.                                 *)
(***************************************************************************)
\* The tag and the number of fields of the package whose Parse returned.
TagOf(p) == IF p = "unlocking_data" THEN "UL" ELSE "UL_S"

FieldsOf(p) == IF p = "unlocking_data" THEN 3 ELSE 2

\* The envelope's first protocol ID is the tag.
Tagged(data, tag) == data.ProtocolIDs # <<>> /\ Head(data.ProtocolIDs) = tag

\* The item is the writing of a version other than 0.
OtherVersion(item) == \E v \in {1, 2, 300} : item = PushNumberScriptItem(v)

\* C16: Parse of either codec returns no message, the payload unchanged
\* and no error when the envelope has no protocol IDs or its first is not
\* the codec's tag; with the tag, fewer than 3 fields (UnlockingData) or 2
\* (UnlockingSize) end in the invalid message error, and a version other
\* than 0 in ErrUnsupportedVersion.
C16_Parse ==
    res.fn = "Parse" /\ arg.type = "payload" =>
        LET p == arg.payload
        IN  /\ ~Tagged(p, TagOf(res.of)) =>
                   res.msg = NoMessage /\ res.payload = p /\ res.err = "nil"
            /\ Tagged(p, TagOf(res.of)) /\ Len(p.Payload) < FieldsOf(res.of) =>
                   res.msg = NoMessage /\ res.err = "ErrInvalidMessage"
            /\ /\ Tagged(p, TagOf(res.of)) /\ Len(p.Payload) >= FieldsOf(res.of)
               /\ OtherVersion(p.Payload[1])
               => res.msg = NoMessage /\ res.err = "ErrUnsupportedVersion"

C16_Witness ==
    /\ res.fn = "Parse" /\ res.of = "unlocking_size" /\ arg.type = "payload"
    /\ Tagged(arg.payload, "UL_S") /\ Len(arg.payload.Payload) = 2
    /\ arg.payload.Payload[1] = OpNumber(1)
    /\ res.err = "ErrUnsupportedVersion"

\* C17: Parse(Write(d)) is d, without error and with no protocol ID and no
\* payload item left, for every UnlockingData{Size, Value} and every
\* UnlockingSize{UnlockingSize} up to the largest unsigned number.
C17_RoundTrip ==
    res.fn = "Parse" /\ arg.type \in {"UnlockingData", "UnlockingSize"} =>
        /\ res.err = "nil"
        /\ res.msg = arg
        /\ res.payload.ProtocolIDs = <<>>
        /\ res.payload.Payload = <<>>

C17_Witness ==
    /\ res.fn = "Parse" /\ arg.type = "UnlockingData"
    /\ arg.Size = MaxUint64 /\ arg.Value = MaxInt64 + 1
    /\ res.msg.Size = MaxUint64 /\ res.msg.Value = MaxInt64 + 1

(***************************************************************************)
(* The claims about the fee of a size and the dust limit.                  *)
(***************************************************************************)
\* The function that returned, applied to another size at the same rate.
SameAt(size) ==
    IF res.fn = "EstimatedFeeValue" THEN EstimatedFeeValue(size, arg.rate)
    ELSE EstimateFeeValue(size, arg.rate)

C19_DustLimit ==
    res.fn = "DustLimit" =>
        LET spent == (arg.size + 148) * 3 * arg.rate.num
            ceiling == CHOOSE c \in 0..spent :
                           c * arg.rate.den >= spent /\ (c - 1) * arg.rate.den < spent
        IN  /\ arg.rate.num = 0 => res.dust = 1
            /\ arg.rate.num # 0 => res.dust = (IF ceiling < 1 THEN 1 ELSE ceiling)
            /\ res.dust >= 1

C19_Witness ==
    /\ res.fn = "DustLimit"
    /\ arg.size = 34 /\ arg.rate = Rate(1, 20)
    /\ res.dust = 28

(***************************************************************************)
(* The claims about a call's failure and about the fee it leaves.          *)
(***************************************************************************)
\* The call failed after "Decrease change": the first IsRemainder output
\* covered the amount, fell below its cost, and is not the reconciler's.
FailedAfterDecrease ==
    /\ ShrinkBelowCost /\ ~call.Outputs[PreChange].addedForFee
    /\ call.err # "nil"

\* C21: whenever AdjustFee returns an error the transaction is as it was
\* before the call: no output's value has changed, none has been added or
\* removed, the failure found after the subtraction included.
C21_ErrorLeavesUnchanged ==
    (Called /\ call.err # "nil") => (TxOut = call.TxOut /\ Outputs = call.Outputs)

\* At most one of the outputs is flagged IsRemainder.
AtMostOneRemainder(outs) ==
    Cardinality({i \in 1..Len(outs) : outs[i].IsRemainder}) <= 1

LoopStopped == call.op = "loop" /\ (call.err # "nil" \/ call.done)

\* One turn: amount := EstimatedFee() - ActualFee(); AdjustFee(amount).
CallerLoopStep ==
    /\ ~LoopStopped
    /\ calls < MaxLoopCalls
    /\ \E amount \in {ToInt64(ToInt64(EstimatedFeeOf(Inputs, TxIn, TxOut, FeeRate))
                                - ActualFeeOf(Inputs, TxIn, TxOut, Outputs))} :
       \E r \in {AdjustFee(Inputs, TxIn, TxOut, Outputs, ChangeScript, FeeRate, amount)} :
           /\ TxOut' = r.TxOut
           /\ Outputs' = r.Outputs
           /\ call' = [op |-> "loop", amount |-> amount, done |-> r.done, err |-> r.err,
                       TxOut |-> TxOut, Outputs |-> Outputs]
           /\ calls' = calls + 1
           /\ UNCHANGED <<Inputs, TxIn, ChangeScript, FeeRate, arg, res>>

LoopNext == CallerLoopStep

\* A turn of the loop, as the count of calls shows it.
NextTurn == ~LoopStopped /\ calls < MaxLoopCalls /\ calls' = calls + 1

\* The loop is sequential code: while it has not ended its next turn runs.
LoopSpec == Init /\ [][LoopNext]_vars /\ WF_calls(NextTurn)

\* C23: from every transaction with at most one IsRemainder output the
\* caller's loop ends, after at most 3 AdjustFee calls.
C23_LoopTerminates == AtMostOneRemainder(Outputs) ~> (LoopStopped /\ calls <= 3)

C23_Witness ==
    /\ LoopStopped /\ calls = 3 /\ call.done /\ call.amount = 0
    /\ Len(TxOut) = 253 /\ Outputs[253].addedForFee

(***************************************************************************)
(* The claim about the two estimators of the unlocking size.               *)
(***************************************************************************)
\* C24: for every locking script fees.EstimateUnlockingSize and
\* txbuilder.UnlockingScriptSize return the same size or fail both, and
\* neither crashes.
C24_EstimatorsAgree ==
    res.fn = "EstimateUnlockingSize" =>
        /\ res.err # "panic"
        /\ \/ /\ res.err = "nil" /\ ~UnlockingScriptSize(arg.script).err
              /\ res.size = UnlockingScriptSize(arg.script).size
           \/ res.err # "nil" /\ UnlockingScriptSize(arg.script).err

====
